---- MODULE Spec2Model ----
(***************************************************************************)
(* A model of the epidemic simulation: Simulation (src/src/simulation.rs), *)
(* Person and Status (src/src/simulation/person.rs), Params                *)
(* (src/src/simulation/params.rs) and the two threads of main              *)
(* (src/src/main.rs).                                                      *)
(*                                                                         *)
(* Reals are modelled exactly as scaled integers:                          *)
(*   lengths      in units of 0.1         (RADIUS = 0.5 is 5)              *)
(*   times        in units of 0.025       (MAX_STEP_DURATION = 0.05 is 2)  *)
(*   velocities   in length units per time unit                            *)
(*   probabilities and uniform draws as numerators over Den                *)
(* An Option<f64> is a sequence of length at most one.                     *)
(***************************************************************************)
EXTENDS Integers, Sequences, FiniteSets, TLC

VARIABLES
    sim,      \* the Simulation the operations act on
    last,     \* the last operation on sim: its arguments, locals and outcome
    coll,     \* the collision bench: people, the collisions found, the result
    ctc,      \* the Person bench: the Person an operation is called on, its
              \* arguments (source, draw, dt) and its result
    mt,       \* main: the two RwLocks and what they guard, and the two threads
    ctor      \* Simulation::new in progress: its locals and its position

vars == <<sim, last, coll, ctc, mt, ctor>>

-----------------------------------------------------------------------------
(* Constants of the program, in the units above. *)

RADIUS == 5

MAX_STEP_DURATION == 2

\* the denominator of probabilities and of uniform draws
Den == 8

-----------------------------------------------------------------------------
(* Bounds of the model. *)

\* simulated time is explored up to this many time units
MaxTime == 4


\* the number of infect and vaccinate calls made on one Simulation
MaxSeedCalls == 2

-----------------------------------------------------------------------------
(* Option<f64> *)

None == <<>>

Some(t) == <<t>>

is_some(o) == Len(o) = 1

Unwrap(o) == o[1]

-----------------------------------------------------------------------------
(* Vector2<f64> *)

Vec(x, y) == <<x, y>>

VAdd(a, b) == <<a[1] + b[1], a[2] + b[2]>>

VSub(a, b) == <<a[1] - b[1], a[2] - b[2]>>

VScale(a, k) == <<a[1] * k, a[2] * k>>

Dot(a, b) == a[1] * b[1] + a[2] * b[2]

\* exact quotient of integers, rounding toward zero where it is not exact
Quot(a, b) == IF a >= 0 THEN a \div b ELSE -((-a) \div b)

-----------------------------------------------------------------------------
(* Status and Person *)

Status(inf, past, vacc) ==
    [infected |-> inf, past_infected |-> past, vaccinated |-> vacc]

DefaultStatus == Status(None, FALSE, FALSE)

\* id is not a field of the Rust struct: it names the Vec element so that an
\* agent can be followed across removals.
Person(id, pos, vel, st) == [id |-> id, position |-> pos, velocity |-> vel, status |-> st]

\* wrap a coordinate into [0, max)
clamp_f64(x, max) == x % max

\* the shortest signed displacement on the torus, per component
WrapSigned(d, max) ==
    LET m == d % max IN IF 2 * m > max THEN m - max ELSE m

clamp_vec2(v, box_size) ==
    <<WrapSigned(v[1], box_size[1]), WrapSigned(v[2], box_size[2])>>

overlaps(self, other, box_size) ==
    LET pos_diff == clamp_vec2(VSub(self.position, other.position), box_size)
    IN  Dot(pos_diff, pos_diff) < (RADIUS * 2) * (RADIUS * 2)

infect(self, time) ==
    [self EXCEPT !.status.infected = Some(time)]

vaccinate(self) ==
    [self EXCEPT !.status.vaccinated = TRUE]

\* shift with a fault: the coordinates are not clamped
shift_Unclamped(self, dt, box_size) ==
    [self EXCEPT !.position = VAdd(self.position, VScale(self.velocity, dt))]

shift(self, dt, box_size) ==
    LET moved == VAdd(self.position, VScale(self.velocity, dt))
    IN  [self EXCEPT !.position = <<clamp_f64(moved[1], box_size[1]),
                                    clamp_f64(moved[2], box_size[2])>>]

set_vel(self, vel) == [self EXCEPT !.velocity = vel]

\* Threshold with a fault: past_infected is matched before vaccinated
Threshold_PastFirst(past_infected, vaccinated, other_vaccinated, params) ==
    CASE past_infected /\ ~other_vaccinated ->
            params.infection_prob_infected_to_healed
      [] past_infected /\ other_vaccinated ->
            params.infection_prob_vaccinated_to_healed
      [] ~past_infected /\ vaccinated /\ ~other_vaccinated ->
            params.infection_prob_infected_to_vaccinated
      [] ~past_infected /\ vaccinated /\ other_vaccinated ->
            params.infection_prob_vaccinated_to_vaccinated
      [] ~past_infected /\ ~vaccinated /\ ~other_vaccinated ->
            params.infection_prob_infected_to_general
      [] ~past_infected /\ ~vaccinated /\ other_vaccinated ->
            params.infection_prob_vaccinated_to_general

\* the match of Person::contact
Threshold(past_infected, vaccinated, other_vaccinated, params) ==
    CASE ~past_infected /\ ~vaccinated /\ ~other_vaccinated ->
            params.infection_prob_infected_to_general
      [] past_infected /\ ~vaccinated /\ ~other_vaccinated ->
            params.infection_prob_infected_to_healed
      [] vaccinated /\ ~other_vaccinated ->
            params.infection_prob_infected_to_vaccinated
      [] ~past_infected /\ ~vaccinated /\ other_vaccinated ->
            params.infection_prob_vaccinated_to_general
      [] past_infected /\ ~vaccinated /\ other_vaccinated ->
            params.infection_prob_vaccinated_to_healed
      [] vaccinated /\ other_vaccinated ->
            params.infection_prob_vaccinated_to_vaccinated

\* contact with a fault: the source is not looked at
contact_AnySource(self, time, params, other, draw) ==
    IF draw < Threshold(self.status.past_infected, self.status.vaccinated,
                        other.status.vaccinated, params)
    THEN [self EXCEPT !.status.infected = Some(time)]
    ELSE self

\* contact with a fault: a recipient that is infected keeps its infection time
contact_KeepClock(self, time, params, other, draw) ==
    IF /\ is_some(other.status.infected)
       /\ ~is_some(self.status.infected)
       /\ draw < Threshold(self.status.past_infected, self.status.vaccinated,
                           other.status.vaccinated, params)
    THEN [self EXCEPT !.status.infected = Some(time)]
    ELSE self

\* contact with a fault: an infection starts from a fresh Status
contact_FreshStatus(self, time, params, other, draw) ==
    IF is_some(other.status.infected)
       /\ draw < Threshold(self.status.past_infected, self.status.vaccinated,
                           other.status.vaccinated, params)
    THEN [self EXCEPT !.status = Status(Some(time), FALSE, self.status.vaccinated)]
    ELSE self

\* draw is the value rng.gen::<f64>() returns if the call is made
contact(self, time, params, other, draw) ==
    IF is_some(other.status.infected)
    THEN LET threshold == Threshold(self.status.past_infected,
                                    self.status.vaccinated,
                                    other.status.vaccinated, params)
         IN  IF draw < threshold
             THEN [self EXCEPT !.status.infected = Some(time)]
             ELSE self
    ELSE self

\* contact_rng with a fault: the draw is made before the source is looked at
contact_rng_DrawFirst(self, time, params, other, rng) ==
    <<contact(self, time, params, other, Head(rng)), Tail(rng)>>

\* contact on the values rng is still to return: <<self after, rng after>>;
\* rng.gen::<f64>() is called only inside if other.status.infected.is_some()
contact_rng(self, time, params, other, rng) ==
    IF is_some(other.status.infected)
    THEN <<contact(self, time, params, other, Head(rng)), Tail(rng)>>
    ELSE <<self, rng>>

\* draw < death_rate * dt / infection_avg_duration, with draw and death_rate
\* over Den and infection_avg_duration > 0
DeathFires(params, dt, draw) ==
    draw * params.infection_avg_duration < params.death_rate * dt

\* HealFires with a fault: the offset is 0.5
HealFires_HalfDuration(time, infected, params, draw) ==
    10 * draw * params.infection_avg_duration
        < 10 * Den * (time - infected) - 5 * Den * params.infection_avg_duration

\* draw < (time - infected) / infection_avg_duration - 0.7
HealFires(time, infected, params, draw) ==
    10 * draw * params.infection_avg_duration
        < 10 * Den * (time - infected) - 7 * Den * params.infection_avg_duration

\* update_status with a fault: the recovery check comes before the death check
update_status_HealFirst(self, time, params, dt, draws) ==
    IF is_some(self.status.infected)
    THEN IF HealFires(time, Unwrap(self.status.infected), params, draws[2])
         THEN <<FALSE, [self EXCEPT !.status.infected = None,
                                    !.status.past_infected = TRUE]>>
         ELSE IF DeathFires(params, dt, draws[1])
              THEN <<TRUE, self>>
              ELSE <<FALSE, self>>
    ELSE <<FALSE, self>>

\* draws = <<death draw, heal draw>>; the result is <<returned bool, self after>>
update_status(self, time, params, dt, draws) ==
    IF is_some(self.status.infected)
    THEN IF DeathFires(params, dt, draws[1])
         THEN <<TRUE, self>>
         ELSE IF HealFires(time, Unwrap(self.status.infected), params, draws[2])
              THEN <<FALSE, [self EXCEPT !.status.infected = None,
                                         !.status.past_infected = TRUE]>>
              ELSE <<FALSE, self>>
    ELSE <<FALSE, self>>

-----------------------------------------------------------------------------
(* Simulation.  Indices into people are 1-based here, 0-based in the code. *)

Simulation(box_size, time, people, params) ==
    [box_size |-> box_size, time |-> time, people |-> people, params |-> params]

Min(a, b) == IF a <= b THEN a ELSE b

\* Take with a fault: as many entries, all of them the first one, as of a
\* selection that draws with replacement
Take_Repeating(s, n) == [i \in 1..Min(n, Len(s)) |-> s[1]]

\* the prefixes iter.take(n) can yield from the sequence s
Take(s, n) == SubSeq(s, 1, Min(n, Len(s)))

\* every order a set can be enumerated in (indices.shuffle, HashSet iteration)
RECURSIVE Orderings(_)
Orderings(S) ==
    IF S = {} THEN {<<>>}
    ELSE UNION {{<<x>> \o rest : rest \in Orderings(S \ {x})} : x \in S}

RECURSIVE ApplyToAll(_, _, _)
\* for index in indices { people[index] = f(people[index]) }, f given by name
ApplyToAll(people, indices, op) ==
    IF indices = <<>> THEN people
    ELSE LET index == Head(indices)
             person == people[index]
             after == IF op[1] = "infect" THEN infect(person, op[2])
                      ELSE vaccinate(person)
         IN  ApplyToAll([people EXCEPT ![index] = after], Tail(indices), op)

\* Simulation::infect; shuffled is the shuffled index vector
Simulation_infect(self, n, shuffled) ==
    [self EXCEPT !.people = ApplyToAll(self.people, Take(shuffled, n),
                                       <<"infect", self.time>>)]

\* Simulation::vaccinate
Simulation_vaccinate(self, n, shuffled) ==
    [self EXCEPT !.people = ApplyToAll(self.people, Take(shuffled, n),
                                       <<"vaccinate">>)]

move_people(self, dt) ==
    [i \in 1..Len(self.people) |-> shift(self.people[i], dt, self.box_size)]

\* insert index into the sorted index sequence, after every index whose key
\* is not greater (sort_by is stable and starts from increasing indices)
RECURSIVE InsertSorted(_, _, _)
InsertSorted(sorted, index, key) ==
    IF sorted = <<>> THEN <<index>>
    ELSE IF key[Head(sorted)] <= key[index]
         THEN <<Head(sorted)>> \o InsertSorted(Tail(sorted), index, key)
         ELSE <<index>> \o sorted

RECURSIVE SortUpTo(_, _)
SortUpTo(key, n) ==
    IF n = 0 THEN <<>> ELSE InsertSorted(SortUpTo(key, n - 1), n, key)

\* SortedBy with a fault: the indices as they are, not sorted
SortedBy_Unsorted(people, axis) == [i \in 1..Len(people) |-> i]

\* sorted_x (axis 1) and sorted_y (axis 2)
SortedBy(people, axis) ==
    SortUpTo([i \in 1..Len(people) |-> people[i].position[axis]], Len(people))

Reverse(s) == [i \in 1..Len(s) |-> s[Len(s) + 1 - i]]

RECURSIVE WallScan(_, _, _, _)
\* for index in order { if touches { push Wall(index, wall) } else { break } }
WallScan(self, order, wall, acc) ==
    IF order = <<>> THEN acc
    ELSE LET index == Head(order)
             pos == self.people[index].position
             touches ==
                 CASE wall = "Left" -> pos[1] < RADIUS
                   [] wall = "Right" -> pos[1] > self.box_size[1] - RADIUS
                   [] wall = "Top" -> pos[2] < RADIUS
                   [] wall = "Bottom" -> pos[2] > self.box_size[2] - RADIUS
         IN  IF touches
             THEN WallScan(self, Tail(order), wall,
                           Append(acc, <<"Wall", index, wall>>))
             ELSE acc

\* the Wall events, in the order find_collisions pushes them
wall_collisions(self) ==
    LET sorted_x == SortedBy(self.people, 1)
        sorted_y == SortedBy(self.people, 2)
    IN  WallScan(self, sorted_x, "Left", <<>>)
        \o WallScan(self, Reverse(sorted_x), "Right", <<>>)
        \o WallScan(self, sorted_y, "Top", <<>>)
        \o WallScan(self, Reverse(sorted_y), "Bottom", <<>>)

\* the gap along the swept axis beyond which the inner scan stops
SweepBreaks(person1, person2, axis) ==
    person2.position[axis] - person1.position[axis] > RADIUS

\* OrderedPair with a fault: the pair as the sweep met it
OrderedPair_AsFound(person_index, other_index) == <<person_index, other_index>>

\* the tuple a sweep inserts into the HashSet: the smaller index first
OrderedPair(person_index, other_index) ==
    IF person_index < other_index
    THEN <<person_index, other_index>>
    ELSE <<other_index, person_index>>

RECURSIVE InnerScan(_, _, _, _, _, _)
\* for j in i + 1..sorted.len() { ... } of one sweep, from j on
InnerScan(self, sorted, i, j, axis, pairs) ==
    IF j > Len(sorted) THEN pairs
    ELSE LET person_index == sorted[i]
             person1 == self.people[person_index]
             person2 == self.people[sorted[j]]
         IN  IF overlaps(person1, person2, self.box_size)
             THEN InnerScan(self, sorted, i, j + 1, axis,
                      pairs \cup {OrderedPair(person_index, sorted[j])})
             ELSE IF SweepBreaks(person1, person2, axis)
                  THEN pairs
                  ELSE InnerScan(self, sorted, i, j + 1, axis, pairs)

RECURSIVE Sweep(_, _, _, _, _)
\* for (i, person_index) in sorted.iter().enumerate() { ... }, from i on
Sweep(self, sorted, i, axis, pairs) ==
    IF i > Len(sorted) THEN pairs
    ELSE Sweep(self, sorted, i + 1, axis,
               InnerScan(self, sorted, i, i + 1, axis, pairs))

\* the HashSet pairs after both sweeps
pair_collisions(self) ==
    LET sorted_x == SortedBy(self.people, 1)
        sorted_y == SortedBy(self.people, 2)
    IN  Sweep(self, sorted_y, 1, 2, Sweep(self, sorted_x, 1, 1, {}))

PeopleEvents(order) == [k \in 1..Len(order) |-> <<"People", order[k][1], order[k][2]>>]

\* every Vec find_collisions can return: the Wall events, then the pairs in
\* the iteration order of the HashSet, which is unspecified
find_collisions(self) ==
    {wall_collisions(self) \o PeopleEvents(order) :
        order \in Orderings(pair_collisions(self))}

\* Impulse with a fault: half of it, as of a collision that is not elastic
Impulse_Half(relative_vel, d) ==
    <<Quot(Dot(relative_vel, d) * d[1], 2 * Dot(d, d)),
      Quot(Dot(relative_vel, d) * d[2], 2 * Dot(d, d))>>

\* vel_norm * normal = ((relative_vel . d) / |d|^2) * d for d = pos2 - pos1
Impulse(relative_vel, d) ==
    <<Quot(Dot(relative_vel, d) * d[1], Dot(d, d)),
      Quot(Dot(relative_vel, d) * d[2], Dot(d, d))>>

\* Approaching with a fault: the sign of the test is reversed
Approaching_WrongSign(relative_vel, d) ==
    Dot(d, d) > 0 /\ Dot(relative_vel, d) < 0

\* relative_vel.dot(&normal) > 0.0; normalize() of the zero vector is NaN, and
\* NaN > 0.0 is false
Approaching(relative_vel, d) ==
    Dot(d, d) > 0 /\ Dot(relative_vel, d) > 0

\* (new_vel1, new_vel2) of the People arm
new_vels(person1, person2) ==
    LET d == VSub(person2.position, person1.position)
        relative_vel == VSub(person1.velocity, person2.velocity)
        vel1 == person1.velocity
        vel2 == person2.velocity
    IN  IF Approaching(relative_vel, d)
        THEN <<VSub(vel1, Impulse(relative_vel, d)),
               VAdd(vel2, Impulse(relative_vel, d))>>
        ELSE <<vel1, vel2>>

\* bounce with a fault: the perpendicular component is negated whatever its
\* sign
bounce_Always(person, wall) ==
    LET vel == person.velocity
    IN  IF wall \in {"Left", "Right"}
        THEN set_vel(person, <<-vel[1], vel[2]>>)
        ELSE set_vel(person, <<vel[1], -vel[2]>>)

\* the Wall arms
bounce(person, wall) ==
    LET vel == person.velocity
    IN  CASE wall = "Left" ->
                set_vel(person, IF vel[1] < 0 THEN <<-vel[1], vel[2]>> ELSE vel)
          [] wall = "Right" ->
                set_vel(person, IF vel[1] > 0 THEN <<-vel[1], vel[2]>> ELSE vel)
          [] wall = "Top" ->
                set_vel(person, IF vel[2] < 0 THEN <<vel[1], -vel[2]>> ELSE vel)
          [] wall = "Bottom" ->
                set_vel(person, IF vel[2] > 0 THEN <<vel[1], -vel[2]>> ELSE vel)

\* apply_collision with a fault: the second contact of a pair reads the
\* first person after its own contact, not the copy made before it
apply_collision_LiveSource(people, collision, time, params, draw) ==
    IF collision[1] = "Wall"
    THEN [people EXCEPT ![collision[2]] = bounce(people[collision[2]], collision[3])]
    ELSE LET index1 == collision[2]
             index2 == collision[3]
             nv == new_vels(people[index1], people[index2])
             copy1 == set_vel(people[index1], nv[1])
             copy2 == set_vel(people[index2], nv[2])
             after1 == contact(copy1, time, params, copy2, draw[<<index1, index2>>])
         IN  [people EXCEPT
                ![index1] = after1,
                ![index2] = contact(copy2, time, params, after1, draw[<<index2, index1>>])]

\* one iteration of the loop of apply_collisions; draw[<<a, b>>] is the draw
\* of the contact in which a is the recipient and b the source
apply_collision(people, collision, time, params, draw) ==
    IF collision[1] = "Wall"
    THEN [people EXCEPT ![collision[2]] = bounce(people[collision[2]], collision[3])]
    ELSE LET index1 == collision[2]
             index2 == collision[3]
             nv == new_vels(people[index1], people[index2])
             copy1 == set_vel(people[index1], nv[1])
             copy2 == set_vel(people[index2], nv[2])
         IN  [people EXCEPT
                ![index1] = contact(copy1, time, params, copy2, draw[<<index1, index2>>]),
                ![index2] = contact(copy2, time, params, copy1, draw[<<index2, index1>>])]

RECURSIVE apply_collisions(_, _, _, _, _)
apply_collisions(people, collisions, time, params, draw) ==
    IF collisions = <<>> THEN people
    ELSE apply_collisions(
             apply_collision(people, Head(collisions), time, params, draw),
             Tail(collisions), time, params, draw)

RECURSIVE collision_states(_, _, _, _, _)
\* self.people before the loop of apply_collisions and after each iteration
collision_states(people, collisions, time, params, draw) ==
    IF collisions = <<>> THEN <<people>>
    ELSE <<people>> \o collision_states(
             apply_collision(people, Head(collisions), time, params, draw),
             Tail(collisions), time, params, draw)

\* the ordered pairs of the People events: the contacts that may draw
ContactSites(collisions) ==
    UNION {{<<collisions[k][2], collisions[k][3]>>, <<collisions[k][3], collisions[k][2]>>} :
              k \in {k \in 1..Len(collisions) : collisions[k][1] = "People"}}

\* the indices update_status returned true for, in increasing order
RECURSIVE DeadIndices(_, _)
DeadIndices(updated, n) ==
    IF n = 0 THEN <<>>
    ELSE IF updated[n][1] THEN Append(DeadIndices(updated, n - 1), n)
         ELSE DeadIndices(updated, n - 1)

RemoveAt(s, index) == SubSeq(s, 1, index - 1) \o SubSeq(s, index + 1, Len(s))

RECURSIVE RemoveFwd(_, _)
\* RemoveRev with a fault: the dead are removed in increasing index order
RemoveFwd(people, dead) ==
    IF dead = <<>> THEN people
    ELSE RemoveFwd(RemoveAt(people, dead[1]), Tail(dead))

RECURSIVE RemoveRev(_, _)
\* for index in dead.into_iter().rev() { people.remove(index) }
RemoveRev(people, dead) ==
    IF dead = <<>> THEN people
    ELSE RemoveRev(RemoveAt(people, dead[Len(dead)]), SubSeq(dead, 1, Len(dead) - 1))

\* ClampDt with a fault: dt is not clamped
ClampDt_Unclamped(dt) == dt

\* the step clamps dt
ClampDt(dt) == Min(dt, MAX_STEP_DURATION)

\* the time the status update of a step sees
TimeForUpdate(time, dt) == time + dt

\* step with a fault: the time is advanced before the collisions are applied
step_TimeFirst(self, dt_arg, collisions, cdraw, sdraw) ==
    LET dt == ClampDt(dt_arg)
        moved == move_people(self, dt)
        time == TimeForUpdate(self.time, dt)
        contacted == apply_collisions(moved, collisions, time, self.params, cdraw)
        updated == [i \in 1..Len(contacted) |->
                        update_status(contacted[i], time, self.params, dt, sdraw[i])]
        dead == DeadIndices(updated, Len(updated))
        people == RemoveRev([i \in 1..Len(updated) |-> updated[i][2]], dead)
    IN  [dt |-> dt, moved |-> moved, collisions |-> collisions,
         contacted |-> contacted, dead |-> dead,
         self |-> [self EXCEPT !.time = time, !.people = people]]

\* Simulation::step with its locals: collisions is the Vec find_collisions
\* returned, cdraw the draws of the contacts, sdraw the draws of update_status
step(self, dt_arg, collisions, cdraw, sdraw) ==
    LET dt == ClampDt(dt_arg)
        moved == move_people(self, dt)
        contacted == apply_collisions(moved, collisions, self.time, self.params, cdraw)
        time == TimeForUpdate(self.time, dt)
        updated == [i \in 1..Len(contacted) |->
                        update_status(contacted[i], time, self.params, dt, sdraw[i])]
        dead == DeadIndices(updated, Len(updated))
        people == RemoveRev([i \in 1..Len(updated) |-> updated[i][2]], dead)
    IN  [dt |-> dt, moved |-> moved, collisions |-> collisions,
         contacted |-> contacted, dead |-> dead,
         self |-> [self EXCEPT !.time = time, !.people = people]]

-----------------------------------------------------------------------------
(* The inputs the model explores. *)

\* the values rng.gen::<f64>() takes, over Den: the least and the greatest
Draws == {0, Den - 1}

\* Params, with the probabilities and the death rate over Den; the six
\* probabilities are pairwise different
Params(avg, death_rate) ==
    [num_people |-> 2, size_x |-> 32, size_y |-> 32, speed_stdev |-> 8,
     init_infected |-> 1, init_vaccinated |-> 0,
     infection_prob_infected_to_general |-> Den - 2,
     infection_prob_infected_to_healed |-> Den - 4,
     infection_prob_infected_to_vaccinated |-> Den - 6,
     infection_prob_vaccinated_to_general |-> Den - 3,
     infection_prob_vaccinated_to_healed |-> Den - 5,
     infection_prob_vaccinated_to_vaccinated |-> Den - 7,
     infection_avg_duration |-> avg,
     death_rate |-> death_rate]

InitParams == {Params(3, 0), Params(3, Den - 2)}

\* results of Simulation::new: no two people overlap, positions in
\* [RADIUS, size - RADIUS), Default status.  Positions and velocities are
\* multiples of 8, so that every overlap is along an axis and the impulse of
\* a collision is computed without rounding.
InitPeople ==
    {<<Person(1, <<8, 16>>, <<8, 0>>, DefaultStatus),
       Person(2, <<24, 16>>, <<0, 0>>, DefaultStatus)>>,
     <<Person(1, <<8, 8>>, <<-8, 0>>, DefaultStatus),
       Person(2, <<8, 24>>, <<0, -8>>, DefaultStatus)>>}

new(people, params) ==
    Simulation(<<params.size_x, params.size_y>>, 0, people, params)

NoOp == [op |-> "new", calls |-> 0, arg |-> 0, taken |-> <<>>, outcome |-> "returned",
         pre |-> <<>>, dt |-> 0, moved |-> <<>>, collisions |-> <<>>,
         cdraw |-> <<>>, sdraw |-> <<>>, contacted |-> <<>>, dead |-> <<>>]

IdleColl == [phase |-> "idle"]

IdleCtc == [phase |-> "idle"]

IdleMain == [phase |-> "idle"]

IdleCtor == [pc |-> "idle"]

\* the dt a caller passes: none, less than the ceiling, more than the ceiling
DtArgs == {0, 1, MAX_STEP_DURATION + 1}

\* the n a caller passes: up to one more than the population
NArgs(self) == 0..(Len(self.people) + 1)

-----------------------------------------------------------------------------
(* Spec: the operations of Simulation on one instance. *)

Init ==
    /\ \E people \in InitPeople, params \in InitParams : sim = new(people, params)
    /\ last = NoOp
    /\ coll = IdleColl
    /\ ctc = IdleCtc
    /\ mt = IdleMain
    /\ ctor = IdleCtor

Infect ==
    \E n \in NArgs(sim), shuffled \in Orderings(1..Len(sim.people)) :
        /\ last.calls < MaxSeedCalls
        /\ sim' = Simulation_infect(sim, n, shuffled)
        /\ last' = [NoOp EXCEPT !.op = "infect", !.arg = n, !.pre = sim,
                                !.calls = last.calls + 1,
                                !.taken = Take(shuffled, n)]
        /\ UNCHANGED <<coll, ctc, mt, ctor>>

Vaccinate ==
    \E n \in NArgs(sim), shuffled \in Orderings(1..Len(sim.people)) :
        /\ last.calls < MaxSeedCalls
        /\ sim' = Simulation_vaccinate(sim, n, shuffled)
        /\ last' = [NoOp EXCEPT !.op = "vaccinate", !.arg = n, !.pre = sim,
                                !.calls = last.calls + 1,
                                !.taken = Take(shuffled, n)]
        /\ UNCHANGED <<coll, ctc, mt, ctor>>

\* The draws of a step that can change its outcome; every other draw is
\* taken as 0, since no value of it changes what the step does.
\* A contact draws to effect only if its source can be infected by then and
\* its threshold is not 0.
ContactDrawMatters(people, sites, site, params) ==
    /\ \/ is_some(people[site[2]].status.infected)
       \/ \E other \in sites : other[1] = site[2] /\ other[2] # site[1]
    /\ 0 < Threshold(people[site[1]].status.past_infected,
                     people[site[1]].status.vaccinated,
                     people[site[2]].status.vaccinated, params)

DeathDrawMatters(person, params, dt) ==
    is_some(person.status.infected) /\ DeathFires(params, dt, 0)

HealDrawMatters(person, time, params) ==
    /\ is_some(person.status.infected)
    /\ HealFires(time, Unwrap(person.status.infected), params, 0)

\* what step(dt_arg) can do on self: its locals and result, with the draws,
\* for every order of the collisions and every draw that matters
StepResults(self, dt_arg) ==
    LET dt == ClampDt(dt_arg)
        moved == [self EXCEPT !.people = move_people(self, dt)]
    IN  UNION {UNION {
          LET cdraw == [site \in ContactSites(collisions) |->
                           IF site \in DOMAIN cd THEN cd[site] ELSE 0]
              contacted == apply_collisions(moved.people, collisions,
                                            self.time, self.params, cdraw)
              n == Len(contacted)
          IN  {[cdraw |-> cdraw,
                sdraw |-> [i \in 1..n |-> <<IF i \in DOMAIN dd THEN dd[i] ELSE 0,
                                            IF i \in DOMAIN hd THEN hd[i] ELSE 0>>],
                r |-> step(self, dt_arg, collisions, cdraw,
                           [i \in 1..n |-> <<IF i \in DOMAIN dd THEN dd[i] ELSE 0,
                                             IF i \in DOMAIN hd THEN hd[i] ELSE 0>>])] :
                 dd \in [{i \in 1..n : DeathDrawMatters(contacted[i], self.params, dt)}
                            -> Draws],
                 hd \in [{i \in 1..n : HealDrawMatters(contacted[i],
                               TimeForUpdate(self.time, dt), self.params)}
                            -> Draws]} :
          cd \in [{site \in ContactSites(collisions) :
                      ContactDrawMatters(moved.people, ContactSites(collisions),
                                         site, self.params)} -> Draws]} :
          collisions \in find_collisions(moved)}

Step ==
    \E dt_arg \in DtArgs :
        /\ sim.time + ClampDt(dt_arg) <= MaxTime
        /\ \E x \in StepResults(sim, dt_arg) :
            /\ sim' = x.r.self
            /\ last' = [NoOp EXCEPT
                  !.op = "step", !.arg = dt_arg, !.pre = sim,
                  !.calls = last.calls,
                  !.dt = x.r.dt, !.moved = x.r.moved,
                  !.collisions = x.r.collisions,
                  !.cdraw = x.cdraw, !.sdraw = x.sdraw,
                  !.contacted = x.r.contacted, !.dead = x.r.dead]
            /\ UNCHANGED <<coll, ctc, mt, ctor>>

Next == Infect \/ Vaccinate \/ Step

Spec == Init /\ [][Next]_vars

-----------------------------------------------------------------------------
(* SpecFind: find_collisions on the positions of four people. *)

\* the Params of a bench: those of a box of the given size
BenchParams(box_size, n) ==
    [Params(3, 0) EXCEPT !.size_x = box_size[1], !.size_y = box_size[2],
                         !.num_people = n]

IdleSim == new(<<>>, BenchParams(<<32, 32>>, 0))

\* coordinates far from the edges of the box, so that no displacement wraps
FindCoords == {10, 16, 40}

FindBox == <<100, 100>>

Still(id, pos) == Person(id, pos, <<0, 0>>, DefaultStatus)

InitFind ==
    /\ sim = IdleSim
    /\ last = NoOp
    /\ ctc = IdleCtc
    /\ mt = IdleMain
    /\ ctor = IdleCtor
    /\ \E p1, p2, p3, p4 \in FindCoords \X FindCoords :
         coll = [phase |-> "input",
                 self |-> Simulation(FindBox, 0,
                             <<Still(1, p1), Still(2, p2), Still(3, p3), Still(4, p4)>>,
                             BenchParams(FindBox, 4))]

Find ==
    /\ coll.phase = "input"
    /\ coll' = [phase |-> "found", self |-> coll.self,
                walls |-> wall_collisions(coll.self),
                pairs |-> pair_collisions(coll.self)]
    /\ UNCHANGED <<sim, last, ctc, mt, ctor>>

NextFind == Find

SpecFind == InitFind /\ [][NextFind]_vars

-----------------------------------------------------------------------------
(* SpecWalls: find_collisions on three people at rest in a box whose walls   *)
(* they may touch.                                                           *)

WallBox == <<40, 40>>

\* inside RADIUS of the left or top wall, exactly RADIUS from it, in the
\* middle, exactly RADIUS from the right or bottom wall, and inside RADIUS
\* of it
WallCoords == {2, RADIUS, 20, WallBox[1] - RADIUS, 38}

InitWalls ==
    /\ sim = IdleSim
    /\ last = NoOp
    /\ ctc = IdleCtc
    /\ mt = IdleMain
    /\ ctor = IdleCtor
    /\ \E p1, p2, p3 \in WallCoords \X WallCoords :
         coll = [phase |-> "input",
                 self |-> Simulation(WallBox, 0,
                             <<Still(1, p1), Still(2, p2), Still(3, p3)>>,
                             BenchParams(WallBox, 3))]

NextWalls == Find

SpecWalls == InitWalls /\ [][NextWalls]_vars

-----------------------------------------------------------------------------
(* SpecApply: apply_collisions on three people in contact, the first of them *)
(* infected or not; every contact draws 0, so that every contact with an     *)
(* infected source transmits.                                                *)

\* the positions: a row and a slanted row whose middle person touches both
\* others, a pair at a wall, and two people at the same point
ApplyPositions ==
    {<<<<8, 16>>, <<16, 16>>, <<24, 16>>>>,
     <<<<10, 10>>, <<13, 14>>, <<16, 18>>>>,
     <<<<2, 16>>, <<10, 16>>, <<20, 3>>>>,
     <<<<8, 8>>, <<8, 8>>, <<20, 20>>>>}

\* a speed that every squared centre distance above divides twice over, so
\* that two impulses in a row are computed without rounding
ApplySpeed == 64 * 625

ApplyVelocities ==
    {<<vx, vy>> : vx \in {-ApplySpeed, 0, ApplySpeed}, vy \in {-ApplySpeed, 0, ApplySpeed}}

InitApply ==
    /\ sim = IdleSim
    /\ last = NoOp
    /\ ctc = IdleCtc
    /\ mt = IdleMain
    /\ ctor = IdleCtor
    /\ \E pos \in ApplyPositions, v1, v2, v3 \in ApplyVelocities,
          st1 \in {DefaultStatus, Status(Some(0), FALSE, FALSE)} :
         coll = [phase |-> "input",
                 self |-> Simulation(<<32, 32>>, 1,
                             <<Person(1, pos[1], v1, st1),
                               Person(2, pos[2], v2, DefaultStatus),
                               Person(3, pos[3], v3, DefaultStatus)>>,
                             BenchParams(<<32, 32>>, 3))]

Apply ==
    /\ coll.phase = "input"
    /\ \E collisions \in find_collisions(coll.self) :
         LET draw == [site \in ContactSites(collisions) |-> 0]
         IN  coll' = [phase |-> "applied", self |-> coll.self,
                      collisions |-> collisions,
                      states |-> collision_states(coll.self.people, collisions,
                                     coll.self.time, coll.self.params, draw),
                      people |-> apply_collisions(coll.self.people, collisions,
                                     coll.self.time, coll.self.params, draw)]
    /\ UNCHANGED <<sim, last, ctc, mt, ctor>>

NextApply == Apply

SpecApply == InitApply /\ [][NextApply]_vars

-----------------------------------------------------------------------------
(* SpecBounce: apply_collisions on one person at a wall, in a corner or in   *)
(* the middle of the box.                                                    *)

BounceCoords == {2, 20, 38}

BounceSpeeds == {-3, -1, 0, 1, 3}

InitBounce ==
    /\ sim = IdleSim
    /\ last = NoOp
    /\ ctc = IdleCtc
    /\ mt = IdleMain
    /\ ctor = IdleCtor
    /\ \E pos \in BounceCoords \X BounceCoords,
          vel \in BounceSpeeds \X BounceSpeeds,
          st \in {DefaultStatus, Status(Some(0), FALSE, TRUE)} :
         coll = [phase |-> "input",
                 self |-> Simulation(WallBox, 1, <<Person(1, pos, vel, st)>>,
                                     BenchParams(WallBox, 1))]

NextBounce == Apply

SpecBounce == InitBounce /\ [][NextBounce]_vars

-----------------------------------------------------------------------------
(* SpecSeed: infect and vaccinate on three people, one of whom may have been *)
(* infected or vaccinated before, at a time after the start.                 *)

SeedStatuses ==
    {DefaultStatus, Status(Some(0), FALSE, FALSE), Status(None, TRUE, TRUE)}

InitSeed ==
    /\ last = NoOp
    /\ coll = IdleColl
    /\ ctc = IdleCtc
    /\ mt = IdleMain
    /\ ctor = IdleCtor
    /\ \E st \in SeedStatuses, time \in {0, 3} :
         sim = Simulation(<<32, 32>>, time,
                          <<Person(1, <<8, 16>>, <<8, 0>>, st),
                            Person(2, <<24, 16>>, <<0, 0>>, DefaultStatus),
                            Person(3, <<16, 26>>, <<0, -8>>, DefaultStatus)>>,
                          BenchParams(<<32, 32>>, 3))

NextSeed == Infect \/ Vaccinate

SpecSeed == InitSeed /\ [][NextSeed]_vars

-----------------------------------------------------------------------------
(* SpecPair: apply_collisions on two people in contact, away from the walls. *)

\* pos2 - pos1: along an axis, slanted, and zero
PairOffsets ==
    {<<8, 0>>, <<-8, 0>>, <<0, 8>>, <<3, 4>>, <<4, 3>>, <<-3, 4>>, <<-4, -3>>, <<0, 0>>}

\* a speed that every squared length of PairOffsets divides, so that the
\* impulse is computed without rounding
PairSpeed == 25

PairVelocities ==
    {<<vx, vy>> : vx \in {-PairSpeed, 0, PairSpeed}, vy \in {-PairSpeed, 0, PairSpeed}}

InitPair ==
    /\ sim = IdleSim
    /\ last = NoOp
    /\ ctc = IdleCtc
    /\ mt = IdleMain
    /\ ctor = IdleCtor
    /\ \E d \in PairOffsets, v1, v2 \in PairVelocities :
         coll = [phase |-> "input",
                 self |-> Simulation(<<32, 32>>, 1,
                             <<Person(1, <<16, 16>>, v1, DefaultStatus),
                               Person(2, VAdd(<<16, 16>>, d), v2, DefaultStatus)>>,
                             BenchParams(<<32, 32>>, 2))]

SpecPair == InitPair /\ [][NextApply]_vars

-----------------------------------------------------------------------------
(* SpecHeadOn: step on two people of one height in a 10.0 x 10.0 box, far    *)
(* from the walls, with opposite velocities along x and one velocity along y.*)

\* the distance of the two centres before the step: in contact and not yet
HeadOnGaps == {1, 6, 10, 12}

\* the speed of each of the two along x, towards the other or away from it
HeadOnSpeeds == {-2, 1, 2, 5}

InitHeadOn ==
    /\ last = NoOp
    /\ coll = IdleColl
    /\ ctc = IdleCtc
    /\ mt = IdleMain
    /\ ctor = IdleCtor
    /\ \E x1 \in {45, 47}, gap \in HeadOnGaps, speed \in HeadOnSpeeds, vy \in {0, 3} :
         sim = new(<<Person(1, <<x1, 50>>, <<speed, vy>>, DefaultStatus),
                     Person(2, <<x1 + gap, 50>>, <<-speed, vy>>, DefaultStatus)>>,
                   BenchParams(<<100, 100>>, 2))

NextHeadOn == Step

SpecHeadOn == InitHeadOn /\ [][NextHeadOn]_vars

-----------------------------------------------------------------------------
(* SpecPurge: step on four people at rest and out of contact, any of them    *)
(* infected at time 0, with a death rate above 0.                            *)

PurgePositions == <<<<8, 8>>, <<24, 8>>, <<8, 24>>, <<24, 24>>>>

InitPurge ==
    /\ last = NoOp
    /\ coll = IdleColl
    /\ ctc = IdleCtc
    /\ mt = IdleMain
    /\ ctor = IdleCtor
    /\ \E st \in [1..4 -> {DefaultStatus, Status(Some(0), FALSE, FALSE)}] :
         sim = new([i \in 1..4 |-> Person(i, PurgePositions[i], <<0, 0>>, st[i])],
                   [Params(3, Den - 2) EXCEPT !.num_people = 4])

NextPurge == Step

SpecPurge == InitPurge /\ [][NextPurge]_vars

-----------------------------------------------------------------------------
(* SpecPairContact: apply_collisions on one pair in contact, for every two   *)
(* statuses and every two draws.                                             *)

InitPairContact ==
    /\ sim = IdleSim
    /\ last = NoOp
    /\ ctc = IdleCtc
    /\ mt = IdleMain
    /\ ctor = IdleCtor
    /\ \E st1, st2 \in {Status(inf, past, vacc) :
                           inf \in {None, Some(0)}, past \in BOOLEAN, vacc \in BOOLEAN} :
         coll = [phase |-> "input",
                 self |-> Simulation(<<32, 32>>, 1,
                             <<Person(1, <<8, 16>>, <<8, 0>>, st1),
                               Person(2, <<16, 16>>, <<0, 8>>, st2)>>,
                             BenchParams(<<32, 32>>, 2))]

PairContact ==
    /\ coll.phase = "input"
    /\ \E collisions \in find_collisions(coll.self) :
       \E cdraw \in [ContactSites(collisions) -> Draws] :
         coll' = [phase |-> "contacted", self |-> coll.self,
                  collisions |-> collisions, cdraw |-> cdraw,
                  people |-> apply_collisions(coll.self.people, collisions,
                                 coll.self.time, coll.self.params, cdraw)]
    /\ UNCHANGED <<sim, last, ctc, mt, ctor>>

NextPairContact == PairContact

SpecPairContact == InitPairContact /\ [][NextPairContact]_vars

-----------------------------------------------------------------------------
(* SpecContact: Person::contact on every pair of statuses and every draw;     *)
(* rng holds the value the generator returns next.                           *)

Statuses ==
    {Status(inf, past, vacc) :
        inf \in {None, Some(0)}, past \in BOOLEAN, vacc \in BOOLEAN}

InitContact ==
    /\ sim = IdleSim
    /\ last = NoOp
    /\ coll = IdleColl
    /\ mt = IdleMain
    /\ ctor = IdleCtor
    /\ \E st \in Statuses, other_st \in Statuses, draw \in 0..(Den - 1) :
         ctc = [phase |-> "input",
                self |-> Person(1, <<8, 8>>, <<0, 0>>, st),
                result |-> Person(1, <<8, 8>>, <<0, 0>>, st),
                other |-> Person(2, <<16, 8>>, <<0, 0>>, other_st),
                time |-> 1, draw |-> draw, rng |-> <<draw>>,
                params |-> BenchParams(<<32, 32>>, 2)]

Contact ==
    /\ ctc.phase = "input"
    /\ LET after == contact_rng(ctc.self, ctc.time, ctc.params, ctc.other, ctc.rng)
       IN  ctc' = [ctc EXCEPT !.phase = "done", !.result = after[1], !.rng = after[2]]
    /\ UNCHANGED <<sim, last, coll, mt, ctor>>

NextContact == Contact

SpecContact == InitContact /\ [][NextContact]_vars

-----------------------------------------------------------------------------
(* SpecShift: Person::shift in a box of 3.2 x 3.2, from positions at the     *)
(* edges and inside, at speeds that cross the box less than once and more    *)
(* than twice in a step.                                                     *)

ShiftBox == <<32, 32>>

ShiftCoords == {0, 1, 16, 31}

ShiftSpeeds == {-40, -1, 0, 1, 40}

InitShift ==
    /\ sim = IdleSim
    /\ last = NoOp
    /\ coll = IdleColl
    /\ mt = IdleMain
    /\ ctor = IdleCtor
    /\ \E x \in ShiftCoords, y \in {16, 31}, vx, vy \in ShiftSpeeds,
          dt \in 0..MAX_STEP_DURATION :
         ctc = [phase |-> "input",
                self |-> Person(1, <<x, y>>, <<vx, vy>>, DefaultStatus),
                result |-> Person(1, <<x, y>>, <<vx, vy>>, DefaultStatus),
                dt |-> dt, box_size |-> ShiftBox]

Shift ==
    /\ ctc.phase = "input"
    /\ ctc' = [ctc EXCEPT !.phase = "shifted",
                          !.result = shift(ctc.self, ctc.dt, ctc.box_size)]
    /\ UNCHANGED <<sim, last, coll, mt, ctor>>

NextShift == Shift

SpecShift == InitShift /\ [][NextShift]_vars

-----------------------------------------------------------------------------
(* SpecMain: the stepping thread and the event loop of main.                 *)
(* An RwLock is [writer, readers]: the thread holding the write guard ("" if *)
(* none) and the threads holding read guards.  A Simulation is read and      *)
(* written in two parts, time first and people second, so that an access     *)
(* the lock does not protect would be seen as a mix of two Simulations.      *)

Unlocked == [writer |-> "", readers |-> {}]

\* CanRead with a fault: the read does not wait for the writer
CanRead_NoWait(lock) == TRUE

\* RwLock::read returns when no write guard is held
CanRead(lock) == lock.writer = ""

\* RwLock::write returns when no guard is held
CanWrite(lock) == lock.writer = "" /\ lock.readers = {}

\* the Simulation main builds and seeds: one person, infected at time 0
MainSim ==
    LET params == [BenchParams(<<32, 32>>, 1) EXCEPT !.init_infected = 1]
    IN  Simulation_vaccinate(
            Simulation_infect(new(<<Person(1, <<8, 8>>, <<8, 0>>, DefaultStatus)>>, params),
                              params.init_infected, <<1>>),
            params.init_vaccinated, <<1>>)

\* the largest time_compression the model explores
MaxCompression == 2

\* SimulationParameters and its methods
SimulationParameters(time_compression, running) ==
    [time_compression |-> time_compression, running |-> running]

toggle_running(self) == [self EXCEPT !.running = ~self.running]

increase_time_compression(self) ==
    [self EXCEPT !.time_compression = Min(self.time_compression + 1, MaxCompression)]

decrease_time_compression(self) ==
    [self EXCEPT !.time_compression =
        IF self.time_compression > 1 THEN self.time_compression - 1 ELSE 1]

\* sim.step(dt, &mut rng, &params): every Simulation it can leave
step_controlled(self, dt, params) ==
    IF params.running
    THEN {x.r.self : x \in StepResults(self, dt * params.time_compression)}
    ELSE {self}

\* the dt of an iteration: the elapsed wall-clock time, within the model's time
Elapsed(self, params) ==
    {dt \in DtArgs :
        params.running =>
            self.time + ClampDt(dt * params.time_compression) <= MaxTime}

Keys == {"Space", "T", "R"}

InitMain ==
    /\ ctor = IdleCtor
    /\ sim = IdleSim
    /\ last = NoOp
    /\ coll = IdleColl
    /\ ctc = IdleCtc
    /\ mt = [phase |-> "running",
             sim_arc |-> MainSim, sim_lock |-> Unlocked,
             sim_params_arc |-> SimulationParameters(1, FALSE),
             sim_params_lock |-> Unlocked,
             step_pc |-> "elapsed", dt |-> 0, sim |-> MainSim,
             params |-> SimulationParameters(1, FALSE),
             ev_pc |-> "wait", key |-> "", snapshot |-> MainSim,
             completed |-> {MainSim}]

Running == mt.phase = "running"

\* let dt = now.elapsed().as_secs_f64(); the dt stays within the model's
\* time whatever controls the iteration is going to read
StepperElapsed ==
    /\ Running /\ mt.step_pc = "elapsed"
    /\ \E dt \in DtArgs :
         /\ mt.sim_arc.time + ClampDt(dt * MaxCompression) <= MaxTime
         /\ mt' = [mt EXCEPT !.dt = dt, !.step_pc = "read_sim"]
    /\ UNCHANGED <<sim, last, coll, ctc, ctor>>

\* sim_arc.read().unwrap()
StepperReadSim ==
    /\ Running /\ mt.step_pc = "read_sim"
    /\ CanRead(mt.sim_lock)
    /\ mt' = [mt EXCEPT !.sim_lock.readers = @ \cup {"stepper"},
                        !.step_pc = "clone_time"]
    /\ UNCHANGED <<sim, last, coll, ctc, ctor>>

\* .clone(), the fields before people
StepperCloneTime ==
    /\ Running /\ mt.step_pc = "clone_time"
    /\ mt' = [mt EXCEPT !.sim = [mt.sim_arc EXCEPT !.people = mt.sim.people],
                        !.step_pc = "clone_people"]
    /\ UNCHANGED <<sim, last, coll, ctc, ctor>>

\* StepperClonePeople with a fault: the read guard outlives the statement
StepperClonePeople_KeepGuard ==
    /\ Running /\ mt.step_pc = "clone_people"
    /\ mt' = [mt EXCEPT !.sim.people = mt.sim_arc.people,
                        !.step_pc = "read_params"]
    /\ UNCHANGED <<sim, last, coll, ctc, ctor>>

\* .clone(), people; the read guard is dropped at the end of the statement
StepperClonePeople ==
    /\ Running /\ mt.step_pc = "clone_people"
    /\ mt' = [mt EXCEPT !.sim.people = mt.sim_arc.people,
                        !.sim_lock.readers = @ \ {"stepper"},
                        !.step_pc = "read_params"]
    /\ UNCHANGED <<sim, last, coll, ctc, ctor>>

\* sim_params_arc.read().unwrap()
StepperReadParams ==
    /\ Running /\ mt.step_pc = "read_params"
    /\ CanRead(mt.sim_params_lock)
    /\ mt' = [mt EXCEPT !.sim_params_lock.readers = @ \cup {"stepper"},
                        !.step_pc = "copy_params"]
    /\ UNCHANGED <<sim, last, coll, ctc, ctor>>

\* StepperCopyParams with a fault: the iteration keeps the params of the
\* iteration before it, as if they were read once before the loop
StepperCopyParams_Stale ==
    /\ Running /\ mt.step_pc = "copy_params"
    /\ mt' = [mt EXCEPT !.sim_params_lock.readers = @ \ {"stepper"},
                        !.step_pc = "step"]
    /\ UNCHANGED <<sim, last, coll, ctc, ctor>>

\* let params = *guard; the read guard is dropped
StepperCopyParams ==
    /\ Running /\ mt.step_pc = "copy_params"
    /\ mt' = [mt EXCEPT !.params = mt.sim_params_arc,
                        !.sim_params_lock.readers = @ \ {"stepper"},
                        !.step_pc = "step"]
    /\ UNCHANGED <<sim, last, coll, ctc, ctor>>

\* sim.step(dt, &mut rng, &params) on the private clone
StepperStep ==
    /\ Running /\ mt.step_pc = "step"
    /\ mt.dt \in Elapsed(mt.sim, mt.params)
    /\ \E after \in step_controlled(mt.sim, mt.dt, mt.params) :
         mt' = [mt EXCEPT !.sim = after,
                          !.completed = IF mt.sim \in mt.completed
                                        THEN @ \cup {after} ELSE @,
                          !.step_pc = "write_sim"]
    /\ UNCHANGED <<sim, last, coll, ctc, ctor>>

\* sim_arc.write().unwrap()
StepperWriteSim ==
    /\ Running /\ mt.step_pc = "write_sim"
    /\ CanWrite(mt.sim_lock)
    /\ mt' = [mt EXCEPT !.sim_lock.writer = "stepper", !.step_pc = "store_time"]
    /\ UNCHANGED <<sim, last, coll, ctc, ctor>>

\* *guard = sim, the fields before people
StepperStoreTime ==
    /\ Running /\ mt.step_pc = "store_time"
    /\ mt' = [mt EXCEPT !.sim_arc = [mt.sim EXCEPT !.people = mt.sim_arc.people],
                        !.step_pc = "store_people"]
    /\ UNCHANGED <<sim, last, coll, ctc, ctor>>

\* *guard = sim, people; the write guard is dropped
StepperStorePeople ==
    /\ Running /\ mt.step_pc = "store_people"
    /\ mt' = [mt EXCEPT !.sim_arc.people = mt.sim.people,
                        !.sim_lock.writer = "",
                        !.step_pc = "elapsed"]
    /\ UNCHANGED <<sim, last, coll, ctc, ctor>>

\* WindowEvent::CloseRequested: the event loop exits and the process ends
EventClose ==
    /\ Running /\ mt.ev_pc = "wait"
    /\ mt' = [mt EXCEPT !.phase = "exited"]
    /\ UNCHANGED <<sim, last, coll, ctc, ctor>>

\* a Pressed Space, T or R
EventKey ==
    /\ Running /\ mt.ev_pc = "wait"
    /\ \E key \in Keys : mt' = [mt EXCEPT !.key = key, !.ev_pc = "write_params"]
    /\ UNCHANGED <<sim, last, coll, ctc, ctor>>

\* any other key, and any event that is not a WindowEvent
EventOther ==
    /\ Running /\ mt.ev_pc = "wait"
    /\ mt' = [mt EXCEPT !.key = "", !.ev_pc = "read_sim"]
    /\ UNCHANGED <<sim, last, coll, ctc, ctor>>

\* any other WindowEvent: the callback returns without drawing
EventIgnored ==
    /\ Running /\ mt.ev_pc = "wait"
    /\ mt' = [mt EXCEPT !.key = "ignored"]
    /\ UNCHANGED <<sim, last, coll, ctc, ctor>>

\* sim_params_clone.write().unwrap()
EventWriteParams ==
    /\ Running /\ mt.ev_pc = "write_params"
    /\ CanWrite(mt.sim_params_lock)
    /\ mt' = [mt EXCEPT !.sim_params_lock.writer = "event", !.ev_pc = "update_params"]
    /\ UNCHANGED <<sim, last, coll, ctc, ctor>>

\* .toggle_running(), .increase_time_compression() or
\* .decrease_time_compression(); the write guard is dropped
EventUpdateParams ==
    /\ Running /\ mt.ev_pc = "update_params"
    /\ mt' = [mt EXCEPT
                !.sim_params_arc =
                    CASE mt.key = "Space" -> toggle_running(@)
                      [] mt.key = "T" -> increase_time_compression(@)
                      [] mt.key = "R" -> decrease_time_compression(@),
                !.sim_params_lock.writer = "",
                !.ev_pc = "read_sim"]
    /\ UNCHANGED <<sim, last, coll, ctc, ctor>>

\* sim_clone.read().unwrap()
EventReadSim ==
    /\ Running /\ mt.ev_pc = "read_sim"
    /\ CanRead(mt.sim_lock)
    /\ mt' = [mt EXCEPT !.sim_lock.readers = @ \cup {"event"}, !.ev_pc = "clone_time"]
    /\ UNCHANGED <<sim, last, coll, ctc, ctor>>

\* .clone(), the fields before people
EventCloneTime ==
    /\ Running /\ mt.ev_pc = "clone_time"
    /\ mt' = [mt EXCEPT !.snapshot = [mt.sim_arc EXCEPT !.people = mt.snapshot.people],
                        !.ev_pc = "clone_people"]
    /\ UNCHANGED <<sim, last, coll, ctc, ctor>>

\* .clone(), people; the read guard is dropped
EventClonePeople ==
    /\ Running /\ mt.ev_pc = "clone_people"
    /\ mt' = [mt EXCEPT !.snapshot.people = mt.sim_arc.people,
                        !.sim_lock.readers = @ \ {"event"},
                        !.ev_pc = "draw"]
    /\ UNCHANGED <<sim, last, coll, ctc, ctor>>

\* renderer.draw(&display, &sim)
EventDraw ==
    /\ Running /\ mt.ev_pc = "draw"
    /\ mt' = [mt EXCEPT !.ev_pc = "wait"]
    /\ UNCHANGED <<sim, last, coll, ctc, ctor>>

NextMain ==
    \/ StepperElapsed \/ StepperReadSim \/ StepperCloneTime \/ StepperClonePeople
    \/ StepperReadParams \/ StepperCopyParams \/ StepperStep
    \/ StepperWriteSim \/ StepperStoreTime \/ StepperStorePeople
    \/ EventClose \/ EventKey \/ EventOther \/ EventIgnored \/ EventWriteParams \/ EventUpdateParams
    \/ EventReadSim \/ EventCloneTime \/ EventClonePeople \/ EventDraw

SpecMain == InitMain /\ [][NextMain]_vars

-----------------------------------------------------------------------------
(* SpecLocks: the two threads of main on a Simulation without people, with   *)
(* the fairness of threads that keep running and of locks that serve every   *)
(* thread that keeps asking.  The record of published Simulations is left    *)
(* empty, so that it stays empty.                                            *)

\* a Simulation without people, two units before the end of the model's
\* time: steps that advance the time and steps of no length both happen
LocksSim == [IdleSim EXCEPT !.time = MaxTime - MAX_STEP_DURATION]

InitLocks ==
    /\ ctor = IdleCtor
    /\ sim = IdleSim
    /\ last = NoOp
    /\ coll = IdleColl
    /\ ctc = IdleCtc
    /\ mt = [phase |-> "running",
             sim_arc |-> LocksSim, sim_lock |-> Unlocked,
             sim_params_arc |-> SimulationParameters(1, FALSE),
             sim_params_lock |-> Unlocked,
             step_pc |-> "elapsed", dt |-> 0, sim |-> LocksSim,
             params |-> SimulationParameters(1, FALSE),
             ev_pc |-> "wait", key |-> "", snapshot |-> LocksSim,
             completed |-> {}]

\* the statements of the stepping thread that wait for nothing
StepperRuns ==
    \/ StepperElapsed \/ StepperCloneTime \/ StepperClonePeople
    \/ StepperCopyParams \/ StepperStep \/ StepperStoreTime \/ StepperStorePeople

\* the statements of the callback that wait for nothing, once it is called
EventRuns ==
    \/ EventUpdateParams \/ EventCloneTime \/ EventClonePeople \/ EventDraw

NextLocks == NextMain

SpecLocks ==
    /\ InitLocks /\ [][NextLocks]_vars
    /\ WF_vars(StepperRuns) /\ WF_vars(EventRuns)
    /\ SF_vars(StepperReadSim) /\ SF_vars(StepperReadParams)
    /\ SF_vars(StepperWriteSim)
    /\ SF_vars(EventWriteParams) /\ SF_vars(EventReadSim)

-----------------------------------------------------------------------------
(* SpecNew: Simulation::new, one step per sample and per test of its loop.   *)

\* the coordinates Uniform::new(RADIUS, size - RADIUS) is sampled at
NewCoords == {5, 16, 26}

\* Person::random: every Person it can return; the velocity plays no part in
\* the placement and is taken as zero
random(id, space_size) ==
    {Person(id, <<x, y>>, <<0, 0>>, DefaultStatus) :
        x \in {c \in NewCoords : RADIUS <= c /\ c < space_size[1] - RADIUS},
        y \in {c \in NewCoords : RADIUS <= c /\ c < space_size[2] - RADIUS}}

\* people.iter().all(|other| !other.overlaps(&new_person))
can_add(people, new_person, box_size) ==
    \A i \in 1..Len(people) : ~overlaps(people[i], new_person, box_size)

\* the Params new is called with: a box with room for nine people and one
\* with room for one, and in the large box Params with a probability above
\* 1, a zero duration and a negative death rate
NewParams ==
    {BenchParams(<<32, 32>>, n) : n \in 0..3}
        \cup {BenchParams(<<20, 12>>, n) : n \in 1..2}
        \cup {[BenchParams(<<32, 32>>, n) EXCEPT !.infection_prob_infected_to_general = Den + 1] :
                 n \in 1..2}
        \cup {[BenchParams(<<32, 32>>, n) EXCEPT !.infection_avg_duration = 0] : n \in 1..2}
        \cup {[BenchParams(<<32, 32>>, n) EXCEPT !.death_rate = -1] : n \in 1..2}

InitNew ==
    /\ sim = IdleSim
    /\ last = NoOp
    /\ coll = IdleColl
    /\ ctc = IdleCtc
    /\ mt = IdleMain
    /\ \E params \in NewParams :
         ctor = [pc |-> "for", params |-> params,
                 box_size |-> <<params.size_x, params.size_y>>,
                 people |-> <<>>, new_person |-> <<>>]

\* for _ in 0..params.num_people, and the return after it
NewFor ==
    /\ ctor.pc = "for"
    /\ IF Len(ctor.people) < ctor.params.num_people
       THEN /\ ctor' = [ctor EXCEPT !.pc = "sample"]
            /\ UNCHANGED sim
       ELSE /\ ctor' = [ctor EXCEPT !.pc = "done"]
            /\ sim' = new(ctor.people, ctor.params)
    /\ UNCHANGED <<last, coll, ctc, mt>>

\* let new_person = Person::random(rng, box_size, params.speed_stdev)
NewSample ==
    /\ ctor.pc = "sample"
    /\ \E new_person \in random(Len(ctor.people) + 1, ctor.box_size) :
         ctor' = [ctor EXCEPT !.pc = "test", !.new_person = <<new_person>>]
    /\ UNCHANGED <<sim, last, coll, ctc, mt>>

\* if can_add { people.push(new_person); break; }, else the loop goes round
NewTest ==
    /\ ctor.pc = "test"
    /\ IF can_add(ctor.people, ctor.new_person[1], ctor.box_size)
       THEN ctor' = [ctor EXCEPT !.pc = "for", !.new_person = <<>>,
                                 !.people = Append(@, ctor.new_person[1])]
       ELSE ctor' = [ctor EXCEPT !.pc = "sample", !.new_person = <<>>]
    /\ UNCHANGED <<sim, last, coll, ctc, mt>>

NextNew == NewFor \/ NewSample \/ NewTest

\* a sample that can be added
NewSampleThatFits ==
    NewSample /\ can_add(ctor'.people, ctor'.new_person[1], ctor'.box_size)

\* new keeps running, and a position that is sampled with a probability
\* above 0 at every turn of the loop is sampled at one of them
SpecNew ==
    InitNew /\ [][NextNew]_vars /\ WF_vars(NextNew) /\ SF_vars(NewSampleThatFits)

-----------------------------------------------------------------------------
(* Properties of Spec.  They read the last operation from `last`: pre is     *)
(* the Simulation it was called on, moved and contacted are people after     *)
(* move_people and after apply_collisions.                                   *)

Ids(people) == {people[i].id : i \in 1..Len(people)}

IsStep == last.op = "step"

IsSeeding == last.op \in {"infect", "vaccinate"}

\* the ids of the people the step's death check fired for: infected at the
\* status update, and the death draw below death_rate * dt / avg
DeathCheckFired ==
    {last.contacted[i].id : i \in
        {i \in 1..Len(last.contacted) :
            /\ is_some(last.contacted[i].status.infected)
            /\ last.sdraw[i][1] * last.pre.params.infection_avg_duration
                   < last.pre.params.death_rate * last.dt}}

\* C1: a step never leaves more agents than it found; no operation adds an
\* agent; the agents a step removes are exactly those whose death check
\* fired in it, and infect and vaccinate remove none.
C1_AgentsOnlyLeaveByDeath ==
    /\ IsStep =>
         /\ Len(sim.people) <= Len(last.pre.people)
         /\ Ids(sim.people) \subseteq Ids(last.pre.people)
         /\ Ids(last.pre.people) \ Ids(sim.people) = DeathCheckFired
         /\ Len(sim.people) = Cardinality(Ids(sim.people))
    /\ IsSeeding =>
         [i \in 1..Len(sim.people) |-> sim.people[i].id]
             = [i \in 1..Len(last.pre.people) |-> last.pre.people[i].id]

C1_Witness ==
    IsStep /\ Len(sim.people) < Len(last.pre.people) /\ Len(sim.people) > 0

\* C2: infect(n) and vaccinate(n) with n greater than the number of agents
\* are rejected and change nothing.
C2_OversizedSelectionRejected ==
    (IsSeeding /\ last.arg > Len(last.pre.people)) =>
        (last.outcome = "rejected" /\ sim = last.pre)

\* C10: time is 0 after construction, a step(dt) advances it by dt when dt is
\* at most the ceiling and by the ceiling otherwise, and infect and vaccinate
\* leave it alone.
C10_TimeAdvancesByClampedDt ==
    /\ last.op = "new" => sim.time = 0
    /\ IsSeeding => sim.time = last.pre.time
    /\ IsStep =>
         /\ sim.time >= last.pre.time
         /\ sim.time - last.pre.time <= MAX_STEP_DURATION
         /\ sim.time - last.pre.time =
                (IF last.arg > MAX_STEP_DURATION THEN MAX_STEP_DURATION ELSE last.arg)

C10_Witness ==
    IsStep /\ last.arg > MAX_STEP_DURATION
           /\ sim.time = last.pre.time + MAX_STEP_DURATION /\ last.pre.time > 0

\* the people of `people` with the id of person (none or one)
SameAgent(people, person) ==
    {people[i] : i \in {i \in 1..Len(people) : people[i].id = person.id}}

PeoplePairs(collisions) ==
    {<<collisions[k][2], collisions[k][3]>> :
        k \in {k \in 1..Len(collisions) : collisions[k][1] = "People"}}

\* the squared centre distance on the torus is below (2 * RADIUS)^2
Touching(p, q, box_size) ==
    LET dx == (p.position[1] - q.position[1]) % box_size[1]
        dy == (p.position[2] - q.position[2]) % box_size[2]
        wx == IF 2 * dx > box_size[1] THEN box_size[1] - dx ELSE dx
        wy == IF 2 * dy > box_size[2] THEN box_size[2] - dy ELSE dy
    IN  wx * wx + wy * wy < 4 * RADIUS * RADIUS

\* C5: in a step the people are moved first, the collisions are those of the
\* moved positions, a contact of the step stamps the time before the advance,
\* the status update sees the time after it, and the purge comes last.
C5_PhasesInOrder ==
    IsStep =>
      LET pre == last.pre
          n == Len(pre.people)
      IN  /\ Len(last.moved) = n /\ Len(last.contacted) = n
          /\ \A i \in 1..n :
               /\ last.moved[i].position[1] =
                    (pre.people[i].position[1] + pre.people[i].velocity[1] * last.dt)
                        % pre.box_size[1]
               /\ last.moved[i].position[2] =
                    (pre.people[i].position[2] + pre.people[i].velocity[2] * last.dt)
                        % pre.box_size[2]
               /\ last.moved[i].status = pre.people[i].status
               /\ last.contacted[i].position = last.moved[i].position
          /\ \A pair \in PeoplePairs(last.collisions) :
               Touching(last.moved[pair[1]], last.moved[pair[2]], pre.box_size)
          /\ \A i \in 1..n :
               last.contacted[i].status.infected # last.moved[i].status.infected
                   => last.contacted[i].status.infected = Some(pre.time)
          /\ sim.time = pre.time + last.dt
          /\ \A i \in 1..n :
               (/\ is_some(last.contacted[i].status.infected)
                /\ last.contacted[i].id \notin DeathCheckFired)
               => \E q \in SameAgent(sim.people, last.contacted[i]) :
                    LET healed ==
                          10 * last.sdraw[i][2] * pre.params.infection_avg_duration
                            < 10 * Den * (sim.time
                                          - Unwrap(last.contacted[i].status.infected))
                              - 7 * Den * pre.params.infection_avg_duration
                    IN  IF healed
                        THEN q.status.infected = None /\ q.status.past_infected
                        ELSE q.status = last.contacted[i].status

\* a step that moved two people into contact, transmitted the infection and
\* let the source recover on the advanced time
C5_Witness ==
    /\ IsStep /\ last.dt > 0
    /\ \E pair \in PeoplePairs(last.collisions) :
         ~Touching(last.pre.people[pair[1]], last.pre.people[pair[2]], last.pre.box_size)
    /\ \E i \in 1..Len(last.contacted) :
         /\ last.moved[i].status.infected = None
         /\ last.contacted[i].status.infected = Some(last.pre.time)
    /\ \E i \in 1..Len(last.contacted) :
         /\ is_some(last.contacted[i].status.infected)
         /\ 10 * (last.pre.time - Unwrap(last.contacted[i].status.infected))
                < 7 * last.pre.params.infection_avg_duration
         /\ \E q \in SameAgent(sim.people, last.contacted[i]) :
                q.status.infected = None /\ q.status.past_infected

\* C6: an agent that is infected when its status is updated, less than
\* 0.7 * infection_avg_duration after infected_since, is not recovered by the
\* update: if it is still there it has the same infected_since and
\* past_infected; and with death_rate 0 it is still there.
C6_NoRecoveryBeforeThreshold ==
    IsStep =>
      \A i \in 1..Len(last.contacted) :
        LET person == last.contacted[i]
        IN  (/\ is_some(person.status.infected)
             /\ 10 * (sim.time - Unwrap(person.status.infected))
                    < 7 * last.pre.params.infection_avg_duration)
            => /\ \A q \in SameAgent(sim.people, person) : q.status = person.status
               /\ last.pre.params.death_rate = 0
                    => SameAgent(sim.people, person) # {}

\* an update that ran on an agent infected for a while, but not long enough
C6_Witness ==
    /\ IsStep /\ last.dt > 0
    /\ \E i \in 1..Len(last.contacted) :
         LET person == last.contacted[i]
         IN  /\ person.status.infected = Some(0)
             /\ last.sdraw[i][2] = 0
             /\ 10 * sim.time > 5 * last.pre.params.infection_avg_duration
             /\ 10 * sim.time < 7 * last.pre.params.infection_avg_duration
             /\ \E q \in SameAgent(sim.people, person) : q.status.infected = Some(0)

\* C9: an agent whose past_infected is set keeps it set through every
\* operation, and through every phase of a step.
C9_PastInfectedMonotone ==
    (IsStep \/ IsSeeding) =>
      /\ \A i \in 1..Len(last.pre.people) :
           last.pre.people[i].status.past_infected =>
             /\ \A q \in SameAgent(sim.people, last.pre.people[i]) :
                    q.status.past_infected
             /\ IsStep => /\ last.moved[i].status.past_infected
                          /\ last.contacted[i].status.past_infected

\* an operation has set infected_since again on an agent that had recovered
C9_Witness ==
    /\ IsStep \/ IsSeeding
    /\ \E i \in 1..Len(last.pre.people) :
         /\ last.pre.people[i].status.past_infected
         /\ last.pre.people[i].status.infected = None
         /\ \E q \in SameAgent(sim.people, last.pre.people[i]) :
                is_some(q.status.infected) /\ q.status.past_infected

-----------------------------------------------------------------------------
(* Properties of SpecFind and SpecApply. *)

\* C3: every pair of distinct people whose centres are less than 2 * RADIUS
\* apart is in the pairs find_collisions collects.
C3_EveryOverlappingPairFound ==
    coll.phase = "found" =>
      \A i, j \in 1..Len(coll.self.people) :
        (i < j /\ Touching(coll.self.people[i], coll.self.people[j], coll.self.box_size))
            => <<i, j>> \in coll.pairs

\* the sign of the closing speed (v1 - v2) . normal of two people with
\* different centres
Closing(person1, person2) ==
    Dot(VSub(person1.velocity, person2.velocity),
        VSub(person2.position, person1.position))

Takes(collision, index) ==
    collision[2] = index \/ (collision[1] = "People" /\ collision[3] = index)

\* C4 as stated: after all the collisions of a step are resolved, no reported
\* pair is still approaching.
C4_NoPairApproachingAfterAll ==
    coll.phase = "applied" =>
      \A pair \in PeoplePairs(coll.collisions) :
        Closing(coll.people[pair[1]], coll.people[pair[2]]) <= 0

\* C4 amended: right after a pair is resolved it is not approaching, and it
\* is not approaching after all the collisions if neither of its people
\* takes part in a later collision of the step.
C4_PairSeparatingWhenResolved ==
    coll.phase = "applied" =>
      /\ Len(coll.states) = Len(coll.collisions) + 1
      /\ coll.states[Len(coll.states)] = coll.people
      /\ \A k \in 1..Len(coll.collisions) :
           coll.collisions[k][1] = "People" =>
             LET index1 == coll.collisions[k][2]
                 index2 == coll.collisions[k][3]
             IN  /\ Closing(coll.states[k + 1][index1], coll.states[k + 1][index2]) <= 0
                 /\ (\A later \in (k + 1)..Len(coll.collisions) :
                        /\ ~Takes(coll.collisions[later], index1)
                        /\ ~Takes(coll.collisions[later], index2))
                    => Closing(coll.people[index1], coll.people[index2]) <= 0

\* a pair that was approaching has been resolved, and one of its people was
\* in another collision of the same step
C4_Witness ==
    /\ coll.phase = "applied"
    /\ \E k \in 1..Len(coll.collisions) :
         /\ coll.collisions[k][1] = "People"
         /\ Closing(coll.states[k][coll.collisions[k][2]],
                    coll.states[k][coll.collisions[k][3]]) > 0
         /\ Closing(coll.states[k + 1][coll.collisions[k][2]],
                    coll.states[k + 1][coll.collisions[k][3]]) < 0
         /\ \E other \in 1..Len(coll.collisions) :
              /\ other # k
              /\ \/ Takes(coll.collisions[other], coll.collisions[k][2])
                 \/ Takes(coll.collisions[other], coll.collisions[k][3])

\* what apply_collisions leaves for another order of the same collisions
ResolvedAs(collisions) ==
    apply_collisions(coll.self.people, collisions, coll.self.time, coll.self.params,
                     [site \in ContactSites(collisions) |-> 0])

\* C16: whatever the order find_collisions returns the collisions of a step
\* in, apply_collisions leaves the same velocities and the same statuses.
C16_ResolutionOrderIndependent ==
    coll.phase = "applied" =>
      \A other \in find_collisions(coll.self) : ResolvedAs(other) = coll.people

\* C16 for the velocities alone
C16_VelocitiesOrderIndependent ==
    coll.phase = "applied" =>
      \A other \in find_collisions(coll.self) :
        \A i \in 1..Len(coll.people) :
          ResolvedAs(other)[i].velocity = coll.people[i].velocity

\* C16 for the statuses alone
C16_StatusesOrderIndependent ==
    coll.phase = "applied" =>
      \A other \in find_collisions(coll.self) :
        \A i \in 1..Len(coll.people) :
          ResolvedAs(other)[i].status = coll.people[i].status

\* no impulse of SpecApply is rounded
ApplyIsExact ==
    coll.phase = "applied" =>
      \A k \in 1..Len(coll.collisions) :
        coll.collisions[k][1] = "People" =>
          LET person1 == coll.states[k][coll.collisions[k][2]]
              person2 == coll.states[k][coll.collisions[k][3]]
              d == VSub(person2.position, person1.position)
              rel == VSub(person1.velocity, person2.velocity)
          IN  Dot(d, d) > 0 =>
                /\ (Dot(rel, d) * d[1]) % Dot(d, d) = 0
                /\ (Dot(rel, d) * d[2]) % Dot(d, d) = 0

\* the people of Spec stay on the grid of multiples of 8, where every
\* overlap is along an axis and no impulse is rounded
SpecOnGrid ==
    \A i \in 1..Len(sim.people) :
        /\ sim.people[i].position[1] % 8 = 0 /\ sim.people[i].position[2] % 8 = 0
        /\ sim.people[i].velocity[1] % 8 = 0 /\ sim.people[i].velocity[2] % 8 = 0

-----------------------------------------------------------------------------
(* Properties of SpecContact: ctc.self is the recipient before the contact   *)
(* and ctc.result the recipient after it.                                    *)

\* the entry of the table of six probabilities for a recipient and a source
TableEntry(recipient, source, params) ==
    IF recipient.vaccinated
    THEN IF source.vaccinated THEN params.infection_prob_vaccinated_to_vaccinated
         ELSE params.infection_prob_infected_to_vaccinated
    ELSE IF recipient.past_infected
         THEN IF source.vaccinated THEN params.infection_prob_vaccinated_to_healed
              ELSE params.infection_prob_infected_to_healed
         ELSE IF source.vaccinated THEN params.infection_prob_vaccinated_to_general
              ELSE params.infection_prob_infected_to_general


\* C7: the contact infects the recipient exactly when the source is infected
\* and the draw is below the table entry of the recipient's category and the
\* source's; a vaccinated recipient is in the vaccinated category whatever
\* its past_infected.  Nothing else of the recipient changes.
C7_ThresholdByCategory ==
    ctc.phase = "done" =>
      LET entry == TableEntry(ctc.self.status, ctc.other.status, ctc.params)
      IN  /\ ctc.result.status.infected =
                (IF is_some(ctc.other.status.infected) /\ ctc.draw < entry
                 THEN Some(ctc.time) ELSE ctc.self.status.infected)
          /\ ctc.result.status.past_infected = ctc.self.status.past_infected
          /\ ctc.result.status.vaccinated = ctc.self.status.vaccinated
          /\ ctc.self.status.vaccinated =>
                entry \in {ctc.params.infection_prob_infected_to_vaccinated,
                           ctc.params.infection_prob_vaccinated_to_vaccinated}

\* a vaccinated recipient that had recovered met an infected source and was
\* spared by a draw that is below the threshold of the healed category
C7_Witness ==
    /\ ctc.phase = "done"
    /\ ctc.self.status.vaccinated /\ ctc.self.status.past_infected
    /\ ctc.self.status.infected = None
    /\ is_some(ctc.other.status.infected) /\ ~ctc.other.status.vaccinated
    /\ ctc.draw >= ctc.params.infection_prob_infected_to_vaccinated
    /\ ctc.draw < ctc.params.infection_prob_infected_to_healed
    /\ ctc.result.status.infected = None

-----------------------------------------------------------------------------
(* Properties of SpecPairContact. *)

\* the status the contact of recipient with source leaves, both as they were
\* before the collision
AfterContact(recipient, source, draw) ==
    IF /\ is_some(source.status.infected)
       /\ draw < TableEntry(recipient.status, source.status, coll.self.params)
    THEN [recipient.status EXCEPT !.infected = Some(coll.self.time)]
    ELSE recipient.status

\* C18: each person of a colliding pair ends with the status its contact
\* gives against the status the other had before the collision, so a person
\* infected in the contact does not infect its partner in it; and the same
\* collision with the two people exchanged, on the same draws, gives the
\* same people.
C18_PairChecksUseSnapshots ==
    coll.phase = "contacted" =>
      /\ coll.collisions = <<<<"People", 1, 2>>>>
      /\ coll.people[1].status =
           AfterContact(coll.self.people[1], coll.self.people[2], coll.cdraw[<<1, 2>>])
      /\ coll.people[2].status =
           AfterContact(coll.self.people[2], coll.self.people[1], coll.cdraw[<<2, 1>>])
      /\ coll.people =
           apply_collisions(coll.self.people, <<<<"People", 2, 1>>>>,
                            coll.self.time, coll.self.params, coll.cdraw)

\* the first person was infected in the contact by the second, and the second,
\* infected before, keeps its infection time although its own draw is below
\* the threshold
C18_Witness ==
    /\ coll.phase = "contacted"
    /\ coll.self.people[1].status.infected = None
    /\ coll.people[1].status.infected = Some(coll.self.time)
    /\ coll.cdraw[<<2, 1>>] = 0
    /\ coll.people[2].status.infected = Some(0)

\* C19: a contact with a source that is not infected leaves the recipient as
\* it was and draws nothing; a contact with an infected source draws once;
\* the recipient's infected changes only if the source is infected.
C19_NoInfectedSourceNoEffect ==
    ctc.phase = "done" =>
      /\ ~is_some(ctc.other.status.infected) =>
            (ctc.result = ctc.self /\ ctc.rng = <<ctc.draw>>)
      /\ is_some(ctc.other.status.infected) => ctc.rng = <<>>
      /\ ctc.result.status.infected # ctc.self.status.infected =>
            is_some(ctc.other.status.infected)

\* a recipient that was never infected met a source that is not infected,
\* with a draw of 0 waiting: it is not infected and the draw is still waiting
C19_Witness ==
    /\ ctc.phase = "done"
    /\ ctc.self.status = DefaultStatus
    /\ ~is_some(ctc.other.status.infected)
    /\ ctc.draw = 0
    /\ ctc.rng = <<0>>
    /\ ctc.result.status = DefaultStatus

\* C20: a contact whose draw is below the threshold sets the recipient's
\* infected to the current time whatever it was: a recovered recipient is
\* infected again, keeping past_infected, and an infected recipient has its
\* infection time replaced by the current time, which is later.
C20_ContactStampsCurrentTime ==
    ctc.phase = "done" =>
      ((/\ is_some(ctc.other.status.infected)
        /\ ctc.draw < TableEntry(ctc.self.status, ctc.other.status, ctc.params))
          => /\ ctc.result.status.infected = Some(ctc.time)
             /\ ctc.result.status.past_infected = ctc.self.status.past_infected
             /\ is_some(ctc.self.status.infected) =>
                    Unwrap(ctc.result.status.infected) > Unwrap(ctc.self.status.infected))

\* a recovered recipient that is infected again since time 0 had its
\* infection time set to the current time
C20_Witness ==
    /\ ctc.phase = "done"
    /\ ctc.self.status.past_infected
    /\ ctc.self.status.infected = Some(0)
    /\ ctc.result.status.infected = Some(ctc.time)
    /\ ctc.result.status.past_infected
    /\ ctc.time > 0

-----------------------------------------------------------------------------
(* Properties of SpecMain.                                                   *)

\* C8: what the presentation thread draws, and what the shared handle holds
\* whenever no write guard is held, is the outcome of a whole number of
\* completed steps from the initial Simulation; while the stepping thread
\* executes a step it holds neither guard of the Simulation's lock.
C8_ReaderSeesWholeSteps ==
    /\ mt.ev_pc = "draw" => mt.snapshot \in mt.completed
    /\ mt.sim_lock.writer = "" => mt.sim_arc \in mt.completed
    /\ mt.step_pc = "step" =>
         /\ mt.sim \in mt.completed
         /\ "stepper" \notin mt.sim_lock.readers
         /\ mt.sim_lock.writer # "stepper"

\* the presentation thread draws a snapshot of a stepped Simulation while the
\* stepping thread has already published a later one
C8_Witness ==
    /\ mt.phase = "running"
    /\ mt.ev_pc = "draw"
    /\ mt.snapshot.time > 0
    /\ mt.sim_arc.time > mt.snapshot.time
    /\ mt.sim_lock.writer = ""

-----------------------------------------------------------------------------
(* Properties of SpecPair. *)

\* |v1|^2 + |v2|^2 of two people
SquaredSpeeds(person1, person2) ==
    Dot(person1.velocity, person1.velocity) + Dot(person2.velocity, person2.velocity)

\* C11: resolving the one collision of an isolated pair leaves the sum of the
\* two squared speeds as it was, whether the impulse is applied (the pair is
\* approaching) or not.
C11_PairKeepsSquaredSpeeds ==
    coll.phase = "applied" =>
      /\ Len(coll.collisions) <= 1
      /\ SquaredSpeeds(coll.people[1], coll.people[2])
             = SquaredSpeeds(coll.self.people[1], coll.self.people[2])

\* a slanted pair was approaching and the impulse changed both velocities,
\* each along both axes
C11_Witness ==
    /\ coll.phase = "applied"
    /\ coll.collisions = <<<<"People", 1, 2>>>>
    /\ Closing(coll.self.people[1], coll.self.people[2]) > 0
    /\ \A i \in 1..2 :
         /\ coll.people[i].velocity[1] # coll.self.people[i].velocity[1]
         /\ coll.people[i].velocity[2] # coll.self.people[i].velocity[2]

-----------------------------------------------------------------------------
(* Properties of SpecHeadOn. *)

\* two people at one height, the left one moving right and the right one
\* moving left at the same speed, with one velocity along y, less than
\* 2 * RADIUS apart
HeadOn(person1, person2) ==
    /\ person1.position[2] = person2.position[2]
    /\ person1.position[1] < person2.position[1]
    /\ person2.position[1] - person1.position[1] < 2 * RADIUS
    /\ person1.velocity[1] > 0
    /\ person2.velocity[1] = -person1.velocity[1]
    /\ person1.velocity[2] = person2.velocity[2]

-----------------------------------------------------------------------------
(* Properties of SpecNew. *)

\* C13: Simulation::new ends, with a Simulation or with a failure, for every
\* Params.
C13_NewTerminates == <>(ctor.pc \in {"done", "failed"})

\* the configuration invariants: the six probabilities in [0, 1], a duration
\* above 0, a death rate that is not negative
ValidParams(params) ==
    /\ \A prob \in {params.infection_prob_infected_to_general,
                    params.infection_prob_infected_to_healed,
                    params.infection_prob_infected_to_vaccinated,
                    params.infection_prob_vaccinated_to_general,
                    params.infection_prob_vaccinated_to_healed,
                    params.infection_prob_vaccinated_to_vaccinated} :
         0 <= prob /\ prob <= Den
    /\ params.infection_avg_duration > 0
    /\ params.death_rate >= 0

\* C14: new returns no Simulation for Params that break the configuration
\* invariants.
C14_InvalidParamsRejected ==
    ctor.pc = "done" => ValidParams(ctor.params)

\* where the box has room for the population, new ends: the loop of C13's
\* counterexample is that of a box without room, not an unlucky sampling
NewEndsWhereThereIsRoom ==
    (ctor.pc = "for" /\ ctor.box_size = <<32, 32>>) ~> (ctor.pc = "done")

-----------------------------------------------------------------------------
(* Properties of SpecShift. *)

-----------------------------------------------------------------------------
(* Properties of SpecPurge. *)

\* the indices, before the purge, of the people whose death check fired in
\* the last step
FiredIndices ==
    {i \in 1..Len(last.contacted) :
        /\ is_some(last.contacted[i].status.infected)
        /\ last.sdraw[i][1] * last.pre.params.infection_avg_duration
               < last.pre.params.death_rate * last.dt}

\* the indices, before the purge, of the other people, in increasing order
SurvivorIndices ==
    SelectSeq([i \in 1..Len(last.contacted) |-> i], LAMBDA i : i \notin FiredIndices)

\* the recovery check of person fires in the last step
RecoveryFires(person, draw) ==
    /\ is_some(person.status.infected)
    /\ 10 * draw * last.pre.params.infection_avg_duration
         < 10 * Den * (sim.time - Unwrap(person.status.infected))
             - 7 * Den * last.pre.params.infection_avg_duration

\* C17: after a step the people are those whose death check did not fire,
\* in the order they had; dead holds the indices of the others as they were
\* before any removal; a survivor has gone through the recovery check once,
\* and a person whose death check fired is removed whatever its recovery
\* check would have given.
C17_SurvivorsKeptInOrder ==
    IsStep =>
      /\ Len(sim.people) = Len(SurvivorIndices)
      /\ last.dead = SelectSeq([i \in 1..Len(last.contacted) |-> i],
                               LAMBDA i : i \in FiredIndices)
      /\ \A k \in 1..Len(SurvivorIndices) :
           LET before == last.contacted[SurvivorIndices[k]]
               draw == last.sdraw[SurvivorIndices[k]][2]
           IN  /\ sim.people[k].id = before.id
               /\ sim.people[k].position = before.position
               /\ sim.people[k].velocity = before.velocity
               /\ sim.people[k].status =
                    IF RecoveryFires(before, draw)
                    THEN [before.status EXCEPT !.infected = None, !.past_infected = TRUE]
                    ELSE before.status

\* two people that are not neighbours die in one step, one of them with a
\* recovery check that would have fired, and the survivors are one between
\* them and one after them
C17_Witness ==
    /\ IsStep
    /\ last.dead = <<1, 3>>
    /\ RecoveryFires(last.contacted[1], last.sdraw[1][2])
    /\ Len(sim.people) = 2
    /\ sim.people[1].id = 2 /\ sim.people[2].id = 4


\* C21: the pairs find_collisions collects, each of which it returns as one
\* People event, all have the smaller index first, no two of them are the
\* same unordered pair, and the two people of each are less than 2 * RADIUS
\* apart.
C21_PairsCanonicalAndOverlapping ==
    coll.phase = "found" =>
      /\ \A pair \in coll.pairs :
           /\ pair[1] < pair[2]
           /\ Touching(coll.self.people[pair[1]], coll.self.people[pair[2]],
                       coll.self.box_size)
      /\ \A pair, other \in coll.pairs :
           {pair[1], pair[2]} = {other[1], other[2]} => pair = other

\* an overlapping pair that the x sweep meets as (i, j) and the y sweep as
\* (j, i), beside a pair within RADIUS on one axis that does not overlap
C21_Witness ==
    /\ coll.phase = "found"
    /\ \E i, j, a, b \in 1..Len(coll.self.people) :
         /\ i < j
         /\ <<i, j>> \in coll.pairs
         /\ coll.self.people[i].position[1] < coll.self.people[j].position[1]
         /\ coll.self.people[i].position[2] > coll.self.people[j].position[2]
         /\ a < b
         /\ <<a, b>> \notin coll.pairs
         /\ coll.self.people[b].position[1] - coll.self.people[a].position[1] \in 0..RADIUS
         /\ ~Touching(coll.self.people[a], coll.self.people[b], coll.self.box_size)


Walls == {"Left", "Right", "Top", "Bottom"}

\* the centre of the person is within RADIUS of the wall
NearWall(person, wall, box_size) ==
    CASE wall = "Left" -> person.position[1] < RADIUS
      [] wall = "Right" -> person.position[1] > box_size[1] - RADIUS
      [] wall = "Top" -> person.position[2] < RADIUS
      [] wall = "Bottom" -> person.position[2] > box_size[2] - RADIUS

\* C22: find_collisions reports one Wall event for every person and wall
\* with the centre of the person within RADIUS of the wall, and no other
\* Wall event.
C22_OneEventPerTouchedWall ==
    coll.phase = "found" =>
      /\ \A k \in 1..Len(coll.walls) :
           /\ coll.walls[k][1] = "Wall"
           /\ coll.walls[k][2] \in 1..Len(coll.self.people)
           /\ coll.walls[k][3] \in Walls
      /\ \A index \in 1..Len(coll.self.people), wall \in Walls :
           Cardinality({k \in 1..Len(coll.walls) :
                           coll.walls[k] = <<"Wall", index, wall>>})
             = IF NearWall(coll.self.people[index], wall, coll.self.box_size)
               THEN 1 ELSE 0

\* the first person is in the middle, the second in a corner, the third at
\* the same wall as the second but not in a corner
C22_Witness ==
    /\ coll.phase = "found"
    /\ Len(coll.walls) = 3
    /\ \A wall \in Walls :
         ~NearWall(coll.self.people[1], wall, coll.self.box_size)
    /\ NearWall(coll.self.people[2], "Right", coll.self.box_size)
    /\ NearWall(coll.self.people[2], "Bottom", coll.self.box_size)
    /\ NearWall(coll.self.people[3], "Right", coll.self.box_size)


\* the axis perpendicular to a wall
Perp(wall) == IF wall \in {"Left", "Right"} THEN 1 ELSE 2

\* the velocity component along the axis points into the wall
IntoWall(vel, wall) ==
    IF wall \in {"Left", "Top"} THEN vel[Perp(wall)] < 0 ELSE vel[Perp(wall)] > 0

Abs(x) == IF x < 0 THEN -x ELSE x

\* C23: a Wall event negates the velocity component perpendicular to its
\* wall if that component points into the wall and leaves it otherwise, so
\* that afterwards it does not point into the wall and has the magnitude it
\* had; the other component, the position and the status stay as they were.
C23_WallReflectsInwardComponentOnly ==
    coll.phase = "applied" =>
      \A k \in 1..Len(coll.collisions) :
        coll.collisions[k][1] = "Wall" =>
          LET index == coll.collisions[k][2]
              wall == coll.collisions[k][3]
              before == coll.states[k][index]
              after == coll.states[k + 1][index]
              perp == Perp(wall)
          IN  /\ after.velocity[perp] =
                   IF IntoWall(before.velocity, wall)
                   THEN -before.velocity[perp] ELSE before.velocity[perp]
              /\ ~IntoWall(after.velocity, wall)
              /\ Abs(after.velocity[perp]) = Abs(before.velocity[perp])
              /\ after.velocity[3 - perp] = before.velocity[3 - perp]
              /\ after.position = before.position
              /\ after.status = before.status
              /\ after.id = before.id

\* a person in a corner moving into one of its walls and away from the
\* other: the first event turns one component, the second turns nothing
C23_Witness ==
    /\ coll.phase = "applied"
    /\ Len(coll.collisions) = 2
    /\ \E k, l \in 1..2 :
         /\ k # l
         /\ IntoWall(coll.self.people[1].velocity, coll.collisions[k][3])
         /\ ~IntoWall(coll.self.people[1].velocity, coll.collisions[l][3])
         /\ coll.self.people[1].velocity[Perp(coll.collisions[l][3])] # 0
    /\ coll.people[1].velocity # coll.self.people[1].velocity


\* the people at the indices in chosen differ from those of before by what
\* the operation sets, and everybody else is as before
SeededExactly(op, chosen) ==
    \A i \in 1..Len(sim.people) :
        sim.people[i] =
            IF i \notin chosen THEN last.pre.people[i]
            ELSE IF op = "infect"
                 THEN [last.pre.people[i] EXCEPT
                          !.status.infected = Some(last.pre.time)]
                 ELSE [last.pre.people[i] EXCEPT !.status.vaccinated = TRUE]

\* C24: after infect(n) or vaccinate(n) with n at most the number of people,
\* there are n different people whose infected is Some(time), or whose
\* vaccinated is true, while everything else about them and everybody else
\* is as before, as are the number of people, the time, the box and the
\* parameters.
C24_SeedingActsOnNDistinct ==
    (IsSeeding /\ last.arg <= Len(last.pre.people)) =>
        /\ Len(sim.people) = Len(last.pre.people)
        /\ sim.time = last.pre.time
        /\ sim.box_size = last.pre.box_size
        /\ sim.params = last.pre.params
        /\ \E chosen \in SUBSET (1..Len(sim.people)) :
             /\ Cardinality(chosen) = last.arg
             /\ SeededExactly(last.op, chosen)
             /\ \A i \in chosen :
                  IF last.op = "infect"
                  THEN sim.people[i].status.infected = Some(sim.time)
                  ELSE sim.people[i].status.vaccinated

\* infect(2) at time 3 on three people none of whom was infected at that
\* time, and vaccinate(2) on three people none of whom was vaccinated
C24_Witness ==
    /\ IsSeeding
    /\ last.arg = 2
    /\ last.pre.time = 3
    /\ Cardinality({i \in 1..3 : sim.people[i] # last.pre.people[i]}) = 2
    /\ last.calls = 2


\* what the handler of a key makes of the controls
AfterKey(key, params) ==
    CASE key = "Space" -> toggle_running(params)
      [] key = "T" -> increase_time_compression(params)
      [] key = "R" -> decrease_time_compression(params)

\* the steps of SpecMain as C25 needs them: an iteration's params are the
\* shared controls as they are when it reads them, and change at no other
\* point; a stopped iteration leaves its clone alone and a running one steps
\* it by dt * time_compression of its own params; the shared controls change
\* only at the end of a key handler, by what that handler does
ControlsReadFreshAndKept ==
    /\ (mt.step_pc = "copy_params" /\ mt'.step_pc = "step")
           => mt'.params = mt.sim_params_arc
    /\ mt'.params # mt.params => mt.step_pc = "copy_params"
    /\ (mt.step_pc = "step" /\ mt'.step_pc = "write_sim") =>
           IF mt.params.running
           THEN mt'.sim.time =
                    mt.sim.time + ClampDt(mt.dt * mt.params.time_compression)
           ELSE mt'.sim = mt.sim
    /\ (mt.ev_pc = "update_params" /\ mt'.ev_pc = "read_sim")
           => mt'.sim_params_arc = AfterKey(mt.key, mt.sim_params_arc)
    /\ mt'.sim_params_arc # mt.sim_params_arc => mt.ev_pc = "update_params"

\* the write of a key handler waits for nothing but the one statement in
\* which the stepping thread copies the controls
ControlWriteWaitsForCopyOnly ==
    /\ mt.sim_params_lock.readers # {} => mt.step_pc = "copy_params"
    /\ (Running /\ mt.ev_pc = "write_params")
           => (ENABLED EventWriteParams \/ ENABLED StepperCopyParams)
    /\ (Running /\ mt.ev_pc = "update_params") => ENABLED EventUpdateParams

\* C25: every iteration of the stepping thread steps with the controls it
\* read in that iteration, which are the shared controls of that moment; a
\* later write does not reach an iteration that has read; every key handler
\* changes the shared controls, nothing else does, and its write waits for
\* no step of the stepping thread but the copy itself.
C25_ControlsReadEveryIteration ==
    [][ControlsReadFreshAndKept]_vars /\ []ControlWriteWaitsForCopyOnly

\* an iteration that read running = true, after an earlier one that stepped
\* with it, is about to step while the shared controls say stopped
C25_Witness ==
    /\ Running
    /\ mt.step_pc = "step"
    /\ mt.params.running
    /\ ~mt.sim_params_arc.running
    /\ mt.sim_arc.time > 0


\* nobody in people is infected
DiseaseFree(people) ==
    \A i \in 1..Len(people) : ~is_some(people[i].status.infected)

\* C26: a step from a state in which nobody is infected leaves the same
\* people, in the same order, each with the status it had, so nobody is
\* infected after it either.
C26_DiseaseFreeIsAbsorbing ==
    (IsStep /\ DiseaseFree(last.pre.people)) =>
        /\ Len(sim.people) = Len(last.pre.people)
        /\ \A i \in 1..Len(sim.people) :
             /\ sim.people[i].id = last.pre.people[i].id
             /\ sim.people[i].status = last.pre.people[i].status
        /\ DiseaseFree(sim.people)

\* a step of positive length with a contact of two people, one of whom has
\* recovered, under a death rate above 0
C26_Witness ==
    /\ IsStep
    /\ DiseaseFree(last.pre.people)
    /\ last.dt > 0
    /\ last.pre.params.death_rate > 0
    /\ PeoplePairs(last.collisions) # {}
    /\ \E i \in 1..Len(last.pre.people) : last.pre.people[i].status.past_infected


\* the guards a thread holds
GuardsHeld(thread) ==
    {lock \in {"sim", "sim_params"} :
        LET l == IF lock = "sim" THEN mt.sim_lock ELSE mt.sim_params_lock
        IN  l.writer = thread \/ thread \in l.readers}

\* no thread holds two guards, and while the process runs some statement of
\* some thread can be executed
OneGuardAndNoDeadlock ==
    /\ Cardinality(GuardsHeld("stepper")) <= 1
    /\ Cardinality(GuardsHeld("event")) <= 1
    /\ Running => ENABLED NextMain
    /\ (Running /\ mt.step_pc \in {"read_sim", "read_params", "write_sim"})
           => GuardsHeld("stepper") = {}
    /\ (Running /\ mt.ev_pc \in {"write_params", "read_sim"})
           => GuardsHeld("event") = {}

=============================================================================
